---- MODULE Spec2Model ----
(***************************************************************************)
(* Stale-lead re-engagement: the record store, fetch_stale_leads (paging   *)
(* and staleness classification), process_all_stale_leads (the batch loop) *)
(* and GeminiEmailGenerator._make_api_call (retry with backoff).           *)
(*                                                                         *)
(* Text whose characters the code inspects (the Last Contacted value) is a *)
(* sequence of one-character strings; text the code only tests for         *)
(* emptiness is a TLA+ string.  A Python dict is a function whose DOMAIN   *)
(* is the set of keys present.                                             *)
(***************************************************************************)
EXTENDS Integers, Sequences, FiniteSets, TLC

(* ------------------------------------------------------------------ *)
(* Bounds of the model                                                *)
(* ------------------------------------------------------------------ *)
NumRecords == 2          \* records in the store of the batch specification
NumClassifyRecords == 1  \* records in the store of the classification specification
PageSize == 1            \* records the store returns per list page
MaxRuns == 2             \* invocations of an operation in one behaviour
MaxUpdates == 1          \* POST /update-email requests in one behaviour
NumLeadRecords == 2      \* records in the store of the single-invocation specification

(* ------------------------------------------------------------------ *)
(* Program constants                                                  *)
(* ------------------------------------------------------------------ *)
StaleThresholdDays == 7  \* stale_threshold = timedelta(days=7)
Retries == 5             \* _make_api_call(..., retries: int = 5, ...)
InitialDelay == 1        \* _make_api_call(..., delay: int = 1)

(* ------------------------------------------------------------------ *)
(* dict.get and truthiness                                            *)
(* ------------------------------------------------------------------ *)
\* d.get(k, default)
Get(d, k, default) == IF k \in DOMAIN d THEN d[k] ELSE default

\* `not s` is False: a present, non-empty str
Truthy(s) == s # ""

\* truthiness of a character sequence; <<>> stands for both "" and None
TruthyChars(cs) == Len(cs) > 0

(* ------------------------------------------------------------------ *)
(* datetime.strptime(s, fmt).date() for the two formats of the code   *)
(* ------------------------------------------------------------------ *)
Digits == {"0", "1", "2", "3", "4", "5", "6", "7", "8", "9"}

DigitVal(c) ==
    CASE c = "0" -> 0 [] c = "1" -> 1 [] c = "2" -> 2 [] c = "3" -> 3
      [] c = "4" -> 4 [] c = "5" -> 5 [] c = "6" -> 6 [] c = "7" -> 7
      [] c = "8" -> 8 [] c = "9" -> 9

\* "/" in s
Contains(cs, c) == \E k \in 1..Len(cs) : cs[k] = c

\* the pieces of cs between occurrences of sep
RECURSIVE SplitOn(_, _)
SplitOn(cs, sep) ==
    IF ~Contains(cs, sep) THEN <<cs>>
    ELSE LET k == CHOOSE j \in 1..Len(cs) :
                     cs[j] = sep /\ \A h \in 1..(j - 1) : cs[h] # sep
         IN  <<SubSeq(cs, 1, k - 1)>> \o SplitOn(SubSeq(cs, k + 1, Len(cs)), sep)

RECURSIVE NumVal(_)
NumVal(cs) ==
    IF cs = <<>> THEN 0
    ELSE 10 * NumVal(SubSeq(cs, 1, Len(cs) - 1)) + DigitVal(cs[Len(cs)])

\* %d : 3[0-1] | [1-2]\d | 0[1-9] | [1-9] | " "[1-9]
DayToken(t) ==
    \/ Len(t) = 1 /\ t[1] \in Digits \ {"0"}
    \/ Len(t) = 2 /\ t[1] = "3" /\ t[2] \in {"0", "1"}
    \/ Len(t) = 2 /\ t[1] \in {"1", "2"} /\ t[2] \in Digits
    \/ Len(t) = 2 /\ t[1] \in {"0", " "} /\ t[2] \in Digits \ {"0"}

\* %m : 1[0-2] | 0[1-9] | [1-9]
MonthToken(t) ==
    \/ Len(t) = 1 /\ t[1] \in Digits \ {"0"}
    \/ Len(t) = 2 /\ t[1] = "1" /\ t[2] \in {"0", "1", "2"}
    \/ Len(t) = 2 /\ t[1] = "0" /\ t[2] \in Digits \ {"0"}

\* %Y : \d\d\d\d
YearToken(t) == Len(t) = 4 /\ \A k \in 1..4 : t[k] \in Digits

TokenVal(t) == IF t[1] = " " THEN NumVal(Tail(t)) ELSE NumVal(t)

IsLeap(y) == y % 4 = 0 /\ (y % 100 # 0 \/ y % 400 = 0)

DaysInMonth(y, m) ==
    CASE m \in {1, 3, 5, 7, 8, 10, 12} -> 31
      [] m \in {4, 6, 9, 11} -> 30
      [] m = 2 -> IF IsLeap(y) THEN 29 ELSE 28

\* the value of a failed parse (ValueError)
ParseError == [ok |-> FALSE]

\* date(y, m, d), ValueError when it is no date of the calendar
MakeDate(y, m, d) ==
    IF y >= 1 /\ d <= DaysInMonth(y, m)
    THEN [ok |-> TRUE, y |-> y, m |-> m, d |-> d]
    ELSE ParseError

FromTokens(ty, tm, td) ==
    IF YearToken(ty) /\ MonthToken(tm) /\ DayToken(td)
    THEN MakeDate(NumVal(ty), TokenVal(tm), TokenVal(td))
    ELSE ParseError

\* datetime.strptime(cs, "%d/%m/%Y").date()
ParseDMY(cs) ==
    LET f == SplitOn(cs, "/")
    IN  IF Len(f) = 3 THEN FromTokens(f[3], f[2], f[1]) ELSE ParseError

\* datetime.strptime(cs, "%Y-%m-%d").date()
ParseISO(cs) ==
    LET f == SplitOn(cs, "-")
    IN  IF Len(f) = 3 THEN FromTokens(f[1], f[2], f[3]) ELSE ParseError

\* date.toordinal(): days since 0001-01-01, plus one
RECURSIVE DaysBeforeMonth(_, _)
DaysBeforeMonth(y, m) ==
    IF m = 1 THEN 0 ELSE DaysBeforeMonth(y, m - 1) + DaysInMonth(y, m - 1)

ToOrdinal(dt) ==
    LET p == dt.y - 1
    IN  p * 365 + (p \div 4) - (p \div 100) + (p \div 400)
          + DaysBeforeMonth(dt.y, dt.m) + dt.d

\* (a - b).days
DaysBetween(a, b) == ToOrdinal(a) - ToOrdinal(b)


(* ------------------------------------------------------------------ *)
(* The record store (Airtable table)                                  *)
(* ------------------------------------------------------------------ *)
VARIABLES
    store,          \* record id -> fields (a dict: absent fields are not in its DOMAIN)
    today,          \* datetime.now().date() as [y, m, d]
    pc,             \* per invocation: "idle", "fetch", "loop", "get", "done"
    kind,           \* per invocation: the operation invoked
    target,         \* per invocation: lead_id of a single-lead operation, 0 without
    all_records,    \* fetch_stale_leads: records collected so far
    offset,         \* fetch_stale_leads: params["offset"], 0 when not set
    stale_leads,    \* the list fetch_stale_leads returned
    idx,            \* process_all_stale_leads: position of the for loop
    results,        \* process_all_stale_leads: results
    success_count,  \* process_all_stale_leads: success_count
    ret,            \* the value the invocation returned
    fetch_failed,   \* history: a list request of the invocation failed
    warned,         \* history: the record ids a parse warning was logged for
    env,            \* history: the collaborators' answers per candidate
    writes,         \* history: the PATCH requests made
    gens,           \* history: the generation requests made
    collab,         \* what the generation API and the store's PATCH answer at present
    attempt,        \* _make_api_call: i of the for loop
    delay,          \* _make_api_call: delay
    api_pc,         \* _make_api_call: "call", "returned", "raised"
    api_log,        \* history: the outcome of each attempt made
    slept,          \* history: the asyncio.sleep durations
    api_out,        \* _make_api_call: the response returned or the error raised
    g_lead,         \* generate_re_engagement_email: its argument lead
    g_pc,           \* generate_re_engagement_email: "idle", "returned"
    g_prompt,       \* generate_re_engagement_email: the prompt it built
    g_ret           \* generate_re_engagement_email: the str it returned

vars == <<store, today, pc, kind, target, all_records, offset, stale_leads, idx,
          results, success_count, ret, fetch_failed, warned, env, writes, gens,
          collab, attempt, delay, api_pc, api_log, slept, api_out,
          g_lead, g_pc, g_prompt, g_ret>>

runVars == <<pc, kind, target, all_records, offset, stale_leads, idx, results,
             success_count, ret, fetch_failed, warned, env>>

genVars == <<g_lead, g_pc, g_prompt, g_ret>>

apiVars == <<attempt, delay, api_pc, api_log, slept, api_out>>

Runs == 1..MaxRuns

\* Last Contacted values
LC_Empty == <<>>
LC_Iso0104 == <<"2", "0", "2", "4", "-", "0", "1", "-", "0", "4">>
LC_Iso1231 == <<"2", "0", "2", "3", "-", "1", "2", "-", "3", "1">>
LC_IsoFuture == <<"2", "0", "2", "4", "-", "0", "2", "-", "0", "1">>
LC_IsoShort == <<"2", "0", "2", "4", "-", "1", "-", "4">>
LC_Dmy0401 == <<"0", "4", "/", "0", "1", "/", "2", "0", "2", "4">>
LC_Dmy0102 == <<"0", "1", "/", "0", "2", "/", "2", "0", "2", "4">>
LC_Dmy2512 == <<"2", "5", "/", "1", "2", "/", "2", "0", "2", "3">>
LC_DmyBadDay == <<"3", "1", "/", "0", "2", "/", "2", "0", "2", "4">>
LC_SlashIso == <<"2", "0", "2", "4", "/", "0", "1", "/", "0", "4">>
LC_DashDmy == <<"0", "4", "-", "0", "1", "-", "2", "0", "2", "4">>
LC_NotADate == <<"n", "o", "t", "-", "a", "-", "d", "a", "t", "e">>

LastContactedValues ==
    {LC_Empty, LC_Iso0104, LC_Iso1231, LC_IsoFuture, LC_IsoShort, LC_Dmy0401,
     LC_Dmy0102, LC_Dmy2512, LC_DmyBadDay, LC_SlashIso, LC_DashDmy, LC_NotADate}

\* the reference dates of the classification specification
RefDates == {[ok |-> TRUE, y |-> 2024, m |-> 1, d |-> dd] : dd \in {10, 11, 12}}

\* fields of a record as the store holds them
Fields(name, email, last, gen) ==
    [k \in {"Full Name", "Email Address", "Last Contacted", "Generated Text Message"} |->
        CASE k = "Full Name" -> name
          [] k = "Email Address" -> email
          [] k = "Last Contacted" -> last
          [] k = "Generated Text Message" -> gen]

\* the same dict without the keys `ks` (the store omits empty cells)
Without(f, ks) == [k \in DOMAIN f \ ks |-> f[k]]

\* records of the classification specification: every Last Contacted value,
\* with and without a generated message, and cells left out
ClassifyRecords ==
    LET full == {Fields("Ann", "ann@x", lc, g) :
                    lc \in LastContactedValues, g \in {"", "Old message"}}
    IN  full \cup {Without(Fields("Ann", "ann@x", LC_Empty, g), {"Last Contacted"}) :
                      g \in {"", "Old message"}}
             \cup {Without(Fields("Ann", "ann@x", lc, ""), {"Generated Text Message"}) :
                      lc \in {LC_Empty, LC_Iso0104, LC_NotADate}}

\* records of the batch specification
BatchRecords ==
    {Fields(n, e, lc, g) : n \in {"", "Ann"}, e \in {"", "ann@x"},
                           lc \in {LC_Empty, LC_Iso0104},
                           g \in {"", "Old message"}}

\* records of the single-invocation specification: never contacted, so that
\* each is a candidate unless it holds a generated message
LeadRecords ==
    {Fields(n, e, LC_Empty, g) : n \in {"", "Ann"}, e \in {"", "ann@x"},
                                 g \in {"", "Old message"}}

\* the stores of n records, with ids 1..n in the order the list request returns them
Stores(n, recs) == UNION {[1..k -> recs] : k \in 0..n}


(* ------------------------------------------------------------------ *)
(* fetch_stale_leads                                                  *)
(* ------------------------------------------------------------------ *)
\* GET /{base}/{table}?offset=off: the next PageSize records, and the cursor of
\* the page after them (0: the response holds no "offset")
ListPage(off) ==
    LET n == Len(store)
        m == IF n - off < PageSize THEN n - off ELSE PageSize
    IN  [records |-> [i \in 1..m |-> [id |-> off + i, fields |-> store[off + i]]],
         offset  |-> IF off + m < n THEN off + m ELSE 0]

\* the lead dict built from a record: the keys it holds and the field of each
LeadKeys ==
    [k \in {"full_name", "email", "phone_number", "potential_interest",
            "crm_services_needed", "lead_source", "status_in_sales_funnel",
            "generated_email_message", "timestamp", "status"} |->
        CASE k = "full_name" -> "Full Name"
          [] k = "email" -> "Email Address"
          [] k = "phone_number" -> "Phone Number"
          [] k = "potential_interest" -> "Potential Interest"
          [] k = "crm_services_needed" -> "CRM Services Needed"
          [] k = "lead_source" -> "Lead Source"
          [] k = "status_in_sales_funnel" -> "Status in Sales Funnel"
          [] k = "generated_email_message" -> "Generated Text Message"
          [] k = "timestamp" -> "Timestamp"
          [] k = "status" -> "Status"]

Normalize(record) ==
    [k \in DOMAIN LeadKeys \cup {"id", "last_contacted"} |->
        CASE k = "id" -> record.id
          [] k = "last_contacted" -> Get(record.fields, "Last Contacted", <<>>)
          [] OTHER -> Get(record.fields, LeadKeys[k], "")]

\* faulty variant: the guard reads a key the lead dict does not hold
NoGeneratedEmailWrongKey(lead) == ~Truthy(Get(lead, "generatedTextMessage", ""))

\* not lead.get("generated_email_message")
NoGeneratedEmail(lead) == ~Truthy(Get(lead, "generated_email_message", ""))

\* faulty variant: the two formats are exchanged
ParseLastContactedSwapped(cs) ==
    IF Contains(cs, "/") THEN ParseISO(cs) ELSE ParseDMY(cs)

\* the strptime call the code selects for a non-empty Last Contacted
ParseLastContacted(cs) ==
    IF Contains(cs, "/") THEN ParseDMY(cs) ELSE ParseISO(cs)

\* faulty variant: the comparison admits the threshold itself
PastThresholdInclusive(ref, dt) == DaysBetween(ref, dt) >= StaleThresholdDays

\* today - last_contacted_date > stale_threshold
PastThreshold(ref, dt) == DaysBetween(ref, dt) > StaleThresholdDays

\* faulty variant: a record without a Last Contacted value is skipped
StaleDecisionSkipsUndated(record, ref) ==
    LET lead == Normalize(record)
        last_contacted_str == Get(record.fields, "Last Contacted", <<>>)
    IN  IF NoGeneratedEmail(lead) /\ TruthyChars(last_contacted_str)
        THEN LET parsed == ParseLastContacted(last_contacted_str)
             IN  IF parsed.ok
                 THEN IF PastThreshold(ref, parsed) THEN "include" ELSE "exclude"
                 ELSE "include_warn"
        ELSE "exclude"

\* what the classification loop does with a record: "include" (the lead is
\* appended to stale_leads), "include_warn" (except ValueError: a warning is
\* logged and the lead is appended) or "exclude"
StaleDecision(record, ref) ==
    LET lead == Normalize(record)
        last_contacted_str == Get(record.fields, "Last Contacted", <<>>)
    IN  IF NoGeneratedEmail(lead)
        THEN IF ~TruthyChars(last_contacted_str)
             THEN "include"
             ELSE LET parsed == ParseLastContacted(last_contacted_str)
                  IN  IF parsed.ok
                      THEN IF PastThreshold(ref, parsed) THEN "include" ELSE "exclude"
                      ELSE "include_warn"
        ELSE "exclude"

IsStale(record, ref) == StaleDecision(record, ref) # "exclude"

\* the classification loop over all_records
RECURSIVE Classify(_, _)
Classify(records, ref) ==
    IF records = <<>> THEN <<>>
    ELSE (IF IsStale(Head(records), ref) THEN <<Normalize(Head(records))>> ELSE <<>>)
             \o Classify(Tail(records), ref)

\* the record ids logging.warning is called for in the classification loop
ParseWarnings(records, ref) ==
    {records[k].id : k \in {j \in 1..Len(records) :
                                StaleDecision(records[j], ref) = "include_warn"}}

(* ------------------------------------------------------------------ *)
(* process_all_stale_leads                                            *)
(* ------------------------------------------------------------------ *)
NoReturn == [pending |-> TRUE]

\* what get_lead_by_id returns when it returns None; no lead
NoLead == <<>>

\* _make_api_call has neither returned nor raised
NoResult == [i |-> 0, outcome |-> "none", status |-> 0, body |-> "none"]

\* faulty variant: an empty candidate list is reported as a failure
NoLeadsReportFailure ==
    [success |-> FALSE, message |-> "No stale leads found", processed |-> 0,
     results |-> <<>>]

NoLeadsReport ==
    [success |-> TRUE, message |-> "No stale leads found", processed |-> 0,
     results |-> <<>>]

\* faulty variant: "successful" reports the number of results
BatchReportCountsResults(leads, res, count) ==
    [success |-> TRUE, message |-> "Processed", total_leads |-> Len(leads),
     successful |-> Len(res), results |-> res]

BatchReport(leads, res, count) ==
    [success |-> TRUE, message |-> "Processed", total_leads |-> Len(leads),
     successful |-> count, results |-> res]

\* what _make_api_call does for one generation request: it returns a response
\* holding a text, returns a response without one, or raises
ApiOutcomes == {"text", "malformed", "raise"}

\* the answers of the two collaborators at one moment: what a generation request
\* would get, and whether the store would accept a PATCH
Collabs == [api : ApiOutcomes, wb : BOOLEAN]

Available == [api |-> "text", wb |-> TRUE]

\* GeminiEmailGenerator.validate_lead_data
validate_lead_data(lead) ==
    Truthy(Get(lead, "fullName", "")) /\ Truthy(Get(lead, "emailAddress", ""))

\* no prompt was built
NoPrompt == <<>>

\* the keys _create_personalized_prompt reads and the default of each get
PromptDefaults ==
    [k \in {"fullName", "emailAddress", "potentialInterest", "crmServicesNeeded",
            "leadSource", "lastContacted"} |->
        CASE k = "fullName" -> "Valued Customer"
          [] k = "emailAddress" -> ""
          [] k = "potentialInterest" -> "our services"
          [] k = "crmServicesNeeded" -> "their CRM needs"
          [] k = "leadSource" -> "a previous conversation"
          [] k = "lastContacted" -> "more than a week ago"]

\* GeminiEmailGenerator._create_personalized_prompt: the value interpolated
\* into the prompt for each key, lead.get(key, default)
create_personalized_prompt(lead) ==
    [k \in DOMAIN PromptDefaults |-> Get(lead, k, PromptDefaults[k])]

\* GeminiEmailGenerator.generate_re_engagement_email: always a str
generate_re_engagement_email(lead, api) ==
    IF ~validate_lead_data(lead)
    THEN "Error: Missing required lead data (fullName or emailAddress)."
    ELSE CASE api = "text" -> "Generated email"
           [] api = "malformed" -> "Error: Gemini API returned an empty or invalid response."
           [] api = "raise" -> "Error generating email: exception"

Outcome(lead, name, status, message) ==
    [lead_id |-> lead["id"], name |-> name, status |-> status, message |-> message]

\* lead['fullName'] inside the try: KeyError lands in the except branch
NamedOutcome(lead, status, message) ==
    IF "fullName" \in DOMAIN lead
    THEN Outcome(lead, lead["fullName"], status, message)
    ELSE Outcome(lead, Get(lead, "fullName", "Unknown"), "error", "Processing error")

\* lead.get('generatedTextMessage'), on the lead as fetched
AlreadyProcessed(lead) == Truthy(Get(lead, "generatedTextMessage", ""))

\* faulty variant: the re-check reads the record as the store holds it now and
\* names the lead with lead.get
LeadStepFreshRecheck(lead, api, wb) ==
    IF Truthy(Get(store[lead["id"]], "Generated Text Message", ""))
    THEN [outcome |-> Outcome(lead, Get(lead, "fullName", "Unknown"),
                              "already_processed", "Email already generated"),
          patch |-> FALSE, text |-> "", api |-> "none", wb |-> "none"]
    ELSE IF ~Truthy(Get(lead, "fullName", "")) \/ ~Truthy(Get(lead, "emailAddress", ""))
    THEN [outcome |-> Outcome(lead, Get(lead, "fullName", "Unknown"),
                              "insufficient_data", "Missing name or email"),
          patch |-> FALSE, text |-> "", api |-> "none", wb |-> "none"]
    ELSE [outcome |-> IF wb THEN NamedOutcome(lead, "success", "Email generated and saved")
                      ELSE NamedOutcome(lead, "update_failed", "Failed to update Airtable"),
          patch |-> TRUE, text |-> generate_re_engagement_email(lead, api),
          api |-> api, wb |-> IF wb THEN "ok" ELSE "failed"]

\* faulty variant: the iteration goes on to generation and write-back without
\* the check of name and email
LeadStepNoContactCheck(lead, api, wb) ==
    IF AlreadyProcessed(lead)
    THEN [outcome |-> NamedOutcome(lead, "already_processed", "Email already generated"),
          patch |-> FALSE, text |-> "", api |-> "none", wb |-> "none"]
    ELSE [outcome |-> IF wb THEN NamedOutcome(lead, "success", "Email generated and saved")
                      ELSE NamedOutcome(lead, "update_failed", "Failed to update Airtable"),
          patch |-> TRUE, text |-> generate_re_engagement_email(lead, api),
          api |-> IF validate_lead_data(lead) THEN api ELSE "none",
          wb |-> IF wb THEN "ok" ELSE "failed"]

\* one iteration of the for loop: the outcome appended, the PATCH made (if any)
\* and what the collaborators were asked
LeadStep(lead, api, wb) ==
    IF AlreadyProcessed(lead)
    THEN [outcome |-> NamedOutcome(lead, "already_processed", "Email already generated"),
          patch |-> FALSE, text |-> "", api |-> "none", wb |-> "none"]
    ELSE IF ~Truthy(Get(lead, "fullName", "")) \/ ~Truthy(Get(lead, "emailAddress", ""))
    THEN [outcome |-> Outcome(lead, Get(lead, "fullName", "Unknown"),
                              "insufficient_data", "Missing name or email"),
          patch |-> FALSE, text |-> "", api |-> "none", wb |-> "none"]
    ELSE [outcome |-> IF wb THEN NamedOutcome(lead, "success", "Email generated and saved")
                      ELSE NamedOutcome(lead, "update_failed", "Failed to update Airtable"),
          patch |-> TRUE, text |-> generate_re_engagement_email(lead, api),
          api |-> api, wb |-> IF wb THEN "ok" ELSE "failed"]

\* faulty variant: only a success is appended to the results
RecordSuccessOnly(res, outcome) ==
    IF outcome.status = "success" THEN Append(res, outcome) ELSE res

\* results.append({...}) of the iteration
Record(res, outcome) == Append(res, outcome)

\* faulty variant: an outcome other than success breaks out of the loop
LoopEndsOnFailure(i, leads, outcome) == i = Len(leads) \/ outcome.status # "success"

\* the for loop is over after the iteration for the last candidate: no outcome
\* leaves it early
LoopEnds(i, leads, outcome) == i = Len(leads)

\* the lead as fetched holds a name and an email
HasContact(lead) == lead["full_name"] # "" /\ lead["email"] # ""

\* the store holds a generated message for the lead's record at present
StoredMessage(lead) == Truthy(Get(store[lead["id"]], "Generated Text Message", ""))

\* history: the collaborators' answers to the two requests for a candidate (the
\* generation call, the PATCH) at the time of its iteration, asked or not; "none"
\* for a candidate holding no name or no email, for which nothing is to be asked;
\* and whether the store held a message for the record at that time
Answers(lead, step, api, wb) ==
    IF step.patch
    THEN [id |-> lead["id"], asked |-> TRUE, api |-> api,
          wb |-> IF wb THEN "ok" ELSE "failed", stored |-> StoredMessage(lead)]
    ELSE IF HasContact(lead)
    THEN [id |-> lead["id"], asked |-> FALSE, api |-> api,
          wb |-> IF wb THEN "ok" ELSE "failed", stored |-> StoredMessage(lead)]
    ELSE [id |-> lead["id"], asked |-> FALSE, api |-> "none", wb |-> "none",
          stored |-> StoredMessage(lead)]

\* faulty variant: the PATCH also stamps Last Contacted
PatchedStampsLastContacted(fields, text) ==
    [k \in DOMAIN fields \cup {"Generated Text Message", "Timestamp", "Status",
                               "Last Contacted"} |->
        CASE k = "Generated Text Message" -> text
          [] k = "Timestamp" -> "now"
          [] k = "Status" -> "Email Generated"
          [] k = "Last Contacted" -> LC_Iso0104
          [] OTHER -> fields[k]]

\* the fields a successful PATCH of update_lead_with_generated_email sets
Patched(fields, text) ==
    [k \in DOMAIN fields \cup {"Generated Text Message", "Timestamp", "Status"} |->
        CASE k = "Generated Text Message" -> text
          [] k = "Timestamp" -> "now"
          [] k = "Status" -> "Email Generated"
          [] OTHER -> fields[k]]


(* ------------------------------------------------------------------ *)
(* Invocations                                                        *)
(* ------------------------------------------------------------------ *)
\* fetch_stale_leads returns `leads` to its caller, which runs on to its next
\* request: process_all_stale_leads to the first candidate (or its report when
\* there is none), the /stale-leads endpoint to its response
ReturnLeads(r, leads) ==
    /\ stale_leads' = [stale_leads EXCEPT ![r] = leads]
    /\ all_records' = [all_records EXCEPT ![r] = <<>>]
    /\ offset' = [offset EXCEPT ![r] = 0]
    /\ idx' = [idx EXCEPT ![r] = 1]
    /\ results' = [results EXCEPT ![r] = <<>>]
    /\ success_count' = [success_count EXCEPT ![r] = 0]
    /\ IF kind[r] = "process"
       THEN IF leads = <<>>
            THEN /\ ret' = [ret EXCEPT ![r] = NoLeadsReport]
                 /\ pc' = [pc EXCEPT ![r] = "done"]
            ELSE /\ ret' = ret
                 /\ pc' = [pc EXCEPT ![r] = "loop"]
       ELSE /\ ret' = [ret EXCEPT ![r] = [leads |-> leads, total_count |-> Len(leads)]]
            /\ pc' = [pc EXCEPT ![r] = "done"]

\* faulty variant: a page replaces the records collected so far
ExtendOverwrites(all, recs) == recs

\* all_records.extend(data.get("records", []))
Extend(all, recs) == all \o recs

\* an operation is invoked: POST /process-stale-leads (process_all_stale_leads)
\* or GET /stale-leads (fetch_stale_leads); it runs up to its first list request.
\* Invocations follow one another.
Invoke(r, k) ==
    /\ pc[r] = "idle"
    /\ \A q \in Runs : q < r => pc[q] = "done"
    /\ pc' = [pc EXCEPT ![r] = "fetch"]
    /\ kind' = [kind EXCEPT ![r] = k]
    /\ UNCHANGED <<store, today, target, all_records, offset, stale_leads, idx,
                   results, success_count, ret, fetch_failed, warned, env,
                   writes, gens, collab, apiVars, genVars>>

\* a list request succeeds: the page is collected; with a cursor the next page is
\* requested, without one the records are classified and returned
ListOk(r) ==
    /\ pc[r] = "fetch"
    /\ LET page == ListPage(offset[r])
           all == Extend(all_records[r], page.records)
       IN  IF page.offset # 0
           THEN /\ all_records' = [all_records EXCEPT ![r] = all]
                /\ offset' = [offset EXCEPT ![r] = page.offset]
                /\ UNCHANGED <<pc, stale_leads, idx, results, success_count, ret, warned>>
           ELSE /\ ReturnLeads(r, Classify(all, today))
                /\ warned' = [warned EXCEPT ![r] = ParseWarnings(all, today)]
    /\ UNCHANGED <<store, today, kind, target, fetch_failed, env, writes, gens,
                   collab, apiVars, genVars>>

\* a list request fails (raise_for_status, or a transport error): the except
\* branch of fetch_stale_leads logs it and returns []
ListFail(r) ==
    /\ pc[r] = "fetch"
    /\ \E err \in {"http_status", "transport"} :
          fetch_failed' = [fetch_failed EXCEPT ![r] = err]
    /\ ReturnLeads(r, <<>>)
    /\ UNCHANGED <<store, today, kind, target, warned, env, writes, gens,
                   collab, apiVars, genVars>>

\* one iteration of the for loop of process_all_stale_leads, and the report
\* after the last one
ProcessLead(r) ==
    /\ pc[r] = "loop"
    /\ LET api == collab.api
           wb  == collab.wb
       IN LET lead == stale_leads[r][idx[r]]
              step == LeadStep(lead, api, wb)
              res  == Record(results[r], step.outcome)
              cnt  == IF step.outcome.status = "success"
                      THEN success_count[r] + 1 ELSE success_count[r]
          IN  /\ results' = [results EXCEPT ![r] = res]
              /\ success_count' = [success_count EXCEPT ![r] = cnt]
              /\ env' = [env EXCEPT ![r] = Append(@, Answers(lead, step, api, wb))]
              /\ IF step.patch
                 THEN /\ writes' = Append(writes, [run |-> r, id |-> lead["id"],
                                                   text |-> step.text, wb |-> step.wb])
                      /\ store' = IF wb
                                  THEN [store EXCEPT ![lead["id"]] = Patched(@, step.text)]
                                  ELSE store
                 ELSE UNCHANGED <<writes, store>>
              /\ gens' = IF step.api # "none"
                         THEN Append(gens, [run |-> r, id |-> lead["id"],
                                            api |-> step.api])
                         ELSE gens
              /\ IF LoopEnds(idx[r], stale_leads[r], step.outcome)
                 THEN /\ ret' = [ret EXCEPT ![r] = BatchReport(stale_leads[r], res, cnt)]
                      /\ pc' = [pc EXCEPT ![r] = "done"]
                      /\ idx' = idx
                 ELSE /\ idx' = [idx EXCEPT ![r] = @ + 1]
                      /\ UNCHANGED <<ret, pc>>
    /\ UNCHANGED <<today, kind, target, all_records, offset, stale_leads,
                   fetch_failed, warned, collab, apiVars, genVars>>

(* ------------------------------------------------------------------ *)
(* Single-lead operations                                             *)
(* ------------------------------------------------------------------ *)
\* POST /generate-email/{lead_id} and POST /generate-and-update-email/{lead_id}
SingleKinds == {"generate_email", "generate_and_update"}

\* get_lead_by_id: the lead dict of the record, None when the GET fails (in
\* transport, or with the 404 the store answers for an id it does not hold)
get_lead_by_id(id, ok) ==
    IF ok /\ id \in DOMAIN store
    THEN Normalize([id |-> id, fields |-> store[id]])
    ELSE NoLead

\* faulty variant: the handler goes on without the `if not lead` check
SingleResponseNoLookupCheck(lead, api, wb) ==
    IF ~validate_lead_data(lead)
    THEN [status |-> 400, detail |-> "Insufficient lead data for email generation",
          patch |-> FALSE, text |-> ""]
    ELSE IF wb
    THEN [status |-> 200, detail |-> "Email generated and saved",
          patch |-> TRUE, text |-> generate_re_engagement_email(lead, api)]
    ELSE [status |-> 500, detail |-> "Failed to update Airtable",
          patch |-> TRUE, text |-> generate_re_engagement_email(lead, api)]

\* the handler after get_lead_by_id returned: the HTTP status of its response,
\* whether it made the generation request and the PATCH, and the text it wrote
SingleResponse(lead, api, wb) ==
    IF lead = NoLead
    THEN [status |-> 404, detail |-> "Lead not found", patch |-> FALSE, text |-> ""]
    ELSE IF ~validate_lead_data(lead)
    THEN [status |-> 400, detail |-> "Insufficient lead data for email generation",
          patch |-> FALSE, text |-> ""]
    ELSE IF wb
    THEN [status |-> 200, detail |-> "Email generated and saved",
          patch |-> TRUE, text |-> generate_re_engagement_email(lead, api)]
    ELSE [status |-> 500, detail |-> "Failed to update Airtable",
          patch |-> TRUE, text |-> generate_re_engagement_email(lead, api)]

\* a single-lead operation is invoked for lead_id; it runs up to its GET
InvokeSingle(r, k, id) ==
    /\ pc[r] = "idle"
    /\ \A q \in Runs : q < r => pc[q] = "done"
    /\ pc' = [pc EXCEPT ![r] = "get"]
    /\ kind' = [kind EXCEPT ![r] = k]
    /\ target' = [target EXCEPT ![r] = id]
    /\ UNCHANGED <<store, today, all_records, offset, stale_leads, idx, results,
                   success_count, ret, fetch_failed, warned, env, writes,
                   gens, collab, apiVars, genVars>>

\* the GET of get_lead_by_id is answered and the handler runs to its response
GetLead(r) ==
    /\ pc[r] = "get"
    /\ \E ok \in BOOLEAN :
          LET lead == get_lead_by_id(target[r], ok)
              resp == SingleResponse(lead, collab.api, collab.wb)
          IN  /\ fetch_failed' = [fetch_failed EXCEPT ![r] =
                                     IF ~ok THEN "transport"
                                     ELSE IF lead = NoLead THEN "http_status"
                                     ELSE "no"]
              /\ ret' = [ret EXCEPT ![r] = [status |-> resp.status,
                                            detail |-> resp.detail]]
              /\ IF resp.patch
                 THEN /\ gens' = Append(gens, [run |-> r, id |-> target[r],
                                               api |-> collab.api])
                      /\ writes' = Append(writes,
                                         [run |-> r, id |-> target[r],
                                          text |-> resp.text,
                                          wb |-> IF collab.wb THEN "ok" ELSE "failed"])
                      /\ store' = IF collab.wb
                                  THEN [store EXCEPT ![target[r]] = Patched(@, resp.text)]
                                  ELSE store
                 ELSE UNCHANGED <<gens, writes, store>>
    /\ pc' = [pc EXCEPT ![r] = "done"]
    /\ UNCHANGED <<today, kind, target, all_records, offset, stale_leads, idx,
                   results, success_count, warned, env, collab, apiVars,
                   genVars>>

\* POST /process-stale-leads arrives while earlier invocations may still be
\* running: the handlers are coroutines of one event loop, which interleave at
\* their awaits. Invocations are numbered in their order of arrival.
Trigger(r) ==
    /\ pc[r] = "idle"
    /\ \A q \in Runs : q < r => pc[q] # "idle"
    /\ pc' = [pc EXCEPT ![r] = "fetch"]
    /\ kind' = [kind EXCEPT ![r] = "process"]
    /\ UNCHANGED <<store, today, target, all_records, offset, stale_leads, idx,
                   results, success_count, ret, fetch_failed, warned, env,
                   writes, gens, collab, apiVars, genVars>>

\* the text of an EmailUpdateRequest
UpdateTexts == {"Manual message"}

\* POST /update-email/{lead_id}: the lead is looked up and, when found,
\* update_lead_with_generated_email PATCHes the request's text; run 0 in the
\* history of PATCH requests
UpdateEmail(id, text) ==
    /\ Len(writes) < MaxUpdates
    /\ \E ok \in BOOLEAN :
          IF get_lead_by_id(id, ok) = NoLead
          THEN UNCHANGED <<writes, store>>
          ELSE /\ writes' = Append(writes, [run |-> 0, id |-> id, text |-> text,
                                            wb |-> IF collab.wb THEN "ok" ELSE "failed"])
               /\ store' = IF collab.wb
                           THEN [store EXCEPT ![id] = Patched(@, text)]
                           ELSE store
    /\ UNCHANGED <<today, runVars, gens, collab, apiVars, genVars>>

\* the generation API or the store becomes available or unavailable
CollabChange ==
    /\ \E c \in Collabs \ {collab} : collab' = c
    /\ UNCHANGED <<store, today, runVars, writes, gens, apiVars, genVars>>

(* ------------------------------------------------------------------ *)
(* The batch specification                                            *)
(* ------------------------------------------------------------------ *)
BatchToday == [ok |-> TRUE, y |-> 2024, m |-> 1, d |-> 10]

InitRuns ==
    /\ pc = [r \in Runs |-> "idle"]
    /\ kind = [r \in Runs |-> "none"]
    /\ target = [r \in Runs |-> 0]
    /\ all_records = [r \in Runs |-> <<>>]
    /\ offset = [r \in Runs |-> 0]
    /\ stale_leads = [r \in Runs |-> <<>>]
    /\ idx = [r \in Runs |-> 1]
    /\ results = [r \in Runs |-> <<>>]
    /\ success_count = [r \in Runs |-> 0]
    /\ ret = [r \in Runs |-> NoReturn]
    /\ fetch_failed = [r \in Runs |-> "no"]
    /\ warned = [r \in Runs |-> {}]
    /\ env = [r \in Runs |-> <<>>]
    /\ writes = <<>>
    /\ gens = <<>>

InitApi ==
    /\ attempt = 0
    /\ delay = InitialDelay
    /\ api_pc = "idle"
    /\ api_log = <<>>
    /\ slept = <<>>
    /\ api_out = NoResult

\* generate_re_engagement_email has not been called
InitGen ==
    /\ g_lead = NoLead
    /\ g_pc = "idle"
    /\ g_prompt = NoPrompt
    /\ g_ret = ""

Init ==
    /\ store \in Stores(NumRecords, BatchRecords)
    /\ today = BatchToday
    /\ collab = Available
    /\ InitRuns
    /\ InitApi
    /\ InitGen

Next ==
    \E r \in Runs :
        \/ Invoke(r, "process")
        \/ ListOk(r)
        \/ ListFail(r)
        \/ ProcessLead(r)

Spec == Init /\ [][Next]_vars

(* ------------------------------------------------------------------ *)
(* The classification specification: GET /stale-leads                 *)
(* ------------------------------------------------------------------ *)
InitClassify ==
    /\ store \in Stores(NumClassifyRecords, ClassifyRecords)
    /\ today \in RefDates
    /\ collab = Available
    /\ InitRuns
    /\ InitApi
    /\ InitGen

NextClassify ==
    \E r \in Runs :
        \/ Invoke(r, "stale_leads")
        \/ ListOk(r)
        \/ ListFail(r)

SpecClassify == InitClassify /\ [][NextClassify]_vars

(* ------------------------------------------------------------------ *)
(* The classification specification under a running clock:            *)
(* fetch_stale_leads takes no date, it reads datetime.now().date()    *)
(* ------------------------------------------------------------------ *)
\* midnight passes: the date the next datetime.now() gives is one day later
Tick ==
    /\ [today EXCEPT !.d = @ + 1] \in RefDates
    /\ today' = [today EXCEPT !.d = @ + 1]
    /\ UNCHANGED <<store, collab, runVars, writes, gens, apiVars, genVars>>

NextClock ==
    \/ NextClassify
    \/ Tick

SpecClock == InitClassify /\ [][NextClock]_vars

(* ------------------------------------------------------------------ *)
(* The pagination specification: fetch_stale_leads over a store of    *)
(* several pages, every list request answered in the end              *)
(* ------------------------------------------------------------------ *)
\* records of the pagination specification: stale, fresh, and holding a message
PagingRecords ==
    {Fields("Ann", "ann@x", LC_Iso1231, ""),
     Fields("Ann", "ann@x", LC_Iso0104, ""),
     Fields("Ann", "ann@x", LC_Iso1231, "Old message")}

InitPaging ==
    /\ store \in Stores(NumRecords, PagingRecords)
    /\ today = BatchToday
    /\ collab = Available
    /\ InitRuns
    /\ InitApi
    /\ InitGen

NextPaging ==
    \E r \in Runs :
        \/ Invoke(r, "stale_leads")
        \/ ListOk(r)
        \/ ListFail(r)

\* every list request is answered or fails (the client's timeout): an awaited
\* response does not stay out for ever
FairSpecPaging ==
    InitPaging /\ [][NextPaging]_vars
        /\ \A r \in Runs : WF_vars(ListFail(r) \/ ListOk(r))

(* ------------------------------------------------------------------ *)
(* The single-invocation specification: one batch run or one          *)
(* single-lead operation, against collaborators that come and go      *)
(* ------------------------------------------------------------------ *)
InitOne ==
    /\ store \in Stores(NumLeadRecords, LeadRecords)
    /\ today = BatchToday
    /\ collab \in Collabs
    /\ InitRuns
    /\ InitApi
    /\ InitGen

NextOne ==
    \/ Invoke(1, "process")
    \/ \E k \in SingleKinds, id \in 1..(NumLeadRecords + 1) : InvokeSingle(1, k, id)
    \/ ListOk(1)
    \/ ListFail(1)
    \/ ProcessLead(1)
    \/ GetLead(1)
    \/ CollabChange

SpecOne == InitOne /\ [][NextOne]_vars


(* ------------------------------------------------------------------ *)
(* The concurrent specification: batch runs triggered while others    *)
(* run, and the /update-email endpoint writing to the same store      *)
(* ------------------------------------------------------------------ *)
\* its records: never contacted and without a message, with and without an email
ConcurrentRecords == {Fields("Ann", e, LC_Empty, "") : e \in {"", "ann@x"}}

InitConcurrent ==
    /\ store \in Stores(NumClassifyRecords, ConcurrentRecords)
    /\ today = BatchToday
    /\ collab \in {c \in Collabs : c.api = "text"}
    /\ InitRuns
    /\ InitApi
    /\ InitGen

NextConcurrent ==
    \/ \E r \in Runs :
          \/ Trigger(r)
          \/ ListOk(r)
          \/ ListFail(r)
          \/ ProcessLead(r)
    \/ \E id \in 1..NumClassifyRecords, text \in UpdateTexts : UpdateEmail(id, text)

SpecConcurrent == InitConcurrent /\ [][NextConcurrent]_vars

(* ------------------------------------------------------------------ *)
(* The write-back specification: the /update-email endpoint writes to *)
(* the store, and GET /stale-leads classifies it                      *)
(* ------------------------------------------------------------------ *)
\* its records: never contacted, contacted 6 days ago or 10 days ago, with and
\* without a generated message
UpdateRecords ==
    {Fields("Ann", "ann@x", lc, g) : lc \in {LC_Empty, LC_Iso0104, LC_Iso1231},
                                    g \in {"", "Old message"}}

InitUpdate ==
    /\ store \in Stores(NumLeadRecords, UpdateRecords)
    /\ today = BatchToday
    /\ collab \in {c \in Collabs : c.api = "text"}
    /\ InitRuns
    /\ InitApi
    /\ InitGen

NextUpdate ==
    \/ \E id \in 1..(NumLeadRecords + 1), text \in UpdateTexts : UpdateEmail(id, text)
    \/ Invoke(1, "stale_leads")
    \/ ListOk(1)
    \/ ListFail(1)

SpecUpdate == InitUpdate /\ [][NextUpdate]_vars

(* ------------------------------------------------------------------ *)
(* GeminiEmailGenerator.generate_re_engagement_email as a function of *)
(* its argument                                                       *)
(* ------------------------------------------------------------------ *)
\* what a key of the argument holds: nothing (the key is absent), the empty
\* string, or a text
KeyStates == {"absent", "empty", "given"}

\* the lead dicts the generator is called with: the keys it reads, as the
\* sample_lead of airtable_utils.main holds them, each absent, empty or given
GeneratorLeads ==
    {[k \in {j \in DOMAIN PromptDefaults : st[j] # "absent"} |->
         IF st[k] = "empty" THEN "" ELSE "Given"] :
     st \in [DOMAIN PromptDefaults -> KeyStates]}

\* generate_re_engagement_email(lead) runs to its return: the prompt is built
\* once validation passed, and the API call answers
GenerateEmail ==
    /\ g_pc = "idle"
    /\ \E api \in ApiOutcomes :
          /\ g_prompt' = IF validate_lead_data(g_lead)
                         THEN create_personalized_prompt(g_lead) ELSE NoPrompt
          /\ g_ret' = generate_re_engagement_email(g_lead, api)
    /\ g_pc' = "returned"
    /\ UNCHANGED <<g_lead, store, today, runVars, writes, gens, collab, apiVars>>

InitGenerate ==
    /\ store = <<>>
    /\ today = BatchToday
    /\ collab = Available
    /\ InitRuns
    /\ InitApi
    /\ g_lead \in GeneratorLeads
    /\ g_pc = "idle"
    /\ g_prompt = NoPrompt
    /\ g_ret = ""

NextGenerate == GenerateEmail

SpecGenerate == InitGenerate /\ [][NextGenerate]_vars

(* ------------------------------------------------------------------ *)
(* GeminiEmailGenerator._make_api_call                                *)
(* ------------------------------------------------------------------ *)
\* the status codes raise_for_status raises for, as the attempts draw them
ErrorStatuses == {429, 400, 404, 500, 503}

\* faulty variant: the last attempt is retried like the others
RetryAfterStatusAlways(code, i) == code = 429 /\ i < Retries

\* faulty variant: every error status is retried, not 429 alone
RetryAfterAnyStatus(code, i) == i < Retries - 1

\* e.response.status_code == 429 and i < retries - 1
RetryAfterStatus(code, i) == code = 429 /\ i < Retries - 1

\* faulty variant: a transport failure is never retried
RetryAfterTransportNever(i) == FALSE

\* i < retries - 1 (httpx.RequestError)
RetryAfterTransport(i) == i < Retries - 1

\* the for loop moves to its next i: another attempt, or `return None` after the
\* last one
AfterSleep(i) == IF i + 1 < Retries THEN "call" ELSE "returned_none"

\* faulty variant: the delay grows by one second instead of doubling
NextDelayLinear(d) == d + 1

\* delay *= 2
NextDelay(d) == d * 2

\* the generator is asked for a text: the call starts with its first attempt
ApiCall ==
    /\ api_pc = "idle"
    /\ api_pc' = "call"
    /\ attempt' = 0
    /\ delay' = InitialDelay
    /\ UNCHANGED <<api_log, slept, api_out, store, today, runVars, writes, gens, collab, genVars>>

\* the POST of attempt i answers 2xx: response.json() is returned
AttemptReturns ==
    /\ api_pc = "call"
    /\ \E body \in {"text", "malformed"} :
          LET answer == [i |-> attempt, outcome |-> "response",
                         status |-> 200, body |-> body]
          IN  /\ api_log' = Append(api_log, answer)
              /\ api_out' = answer
    /\ api_pc' = "returned"
    /\ UNCHANGED <<attempt, delay, slept, store, today, runVars, writes, gens, collab, genVars>>

\* the POST of attempt i answers an error status: httpx.HTTPStatusError
AttemptStatusError ==
    /\ api_pc = "call"
    /\ \E code \in ErrorStatuses :
          LET error == [i |-> attempt, outcome |-> "status_error",
                        status |-> code, body |-> "none"]
          IN  /\ api_log' = Append(api_log, error)
              /\ IF RetryAfterStatus(code, attempt)
                 THEN api_pc' = "sleep" /\ api_out' = api_out
                 ELSE api_pc' = "raised" /\ api_out' = error
    /\ UNCHANGED <<attempt, delay, slept, store, today, runVars, writes, gens, collab, genVars>>

\* the POST of attempt i fails in transport: httpx.RequestError
AttemptTransportError ==
    /\ api_pc = "call"
    /\ LET error == [i |-> attempt, outcome |-> "transport_error",
                     status |-> 0, body |-> "none"]
       IN  /\ api_log' = Append(api_log, error)
           /\ IF RetryAfterTransport(attempt)
              THEN api_pc' = "sleep" /\ api_out' = api_out
              ELSE api_pc' = "raised" /\ api_out' = error
    /\ UNCHANGED <<attempt, delay, slept, store, today, runVars, writes, gens, collab, genVars>>

\* await asyncio.sleep(delay); delay *= 2; the loop goes on
Backoff ==
    /\ api_pc = "sleep"
    /\ slept' = Append(slept, delay)
    /\ delay' = NextDelay(delay)
    /\ attempt' = attempt + 1
    /\ api_pc' = AfterSleep(attempt)
    /\ UNCHANGED <<api_log, api_out, store, today, runVars, writes, gens, collab, genVars>>

InitRetry ==
    /\ store = <<>>
    /\ today = BatchToday
    /\ collab = Available
    /\ InitRuns
    /\ InitApi
    /\ InitGen

NextRetry ==
    \/ ApiCall
    \/ AttemptReturns
    \/ AttemptStatusError
    \/ AttemptTransportError
    \/ Backoff

SpecRetry == InitRetry /\ [][NextRetry]_vars

\* the call ends, or one of its steps is enabled, in every state: with weak
\* fairness of its steps (the event loop resumes an awaiting coroutine) it ends
FairSpecRetry == SpecRetry /\ WF_vars(NextRetry)


(* ------------------------------------------------------------------ *)
(* Claims about the batch run (specification Spec)                    *)
(* ------------------------------------------------------------------ *)
\* process_all_stale_leads has returned in invocation r
ProcessDone(r) == kind[r] = "process" /\ pc[r] = "done"

\* it returned the report of a run over at least one candidate
Reported(r) == ProcessDone(r) /\ stale_leads[r] # <<>>

\* C1: partial-failure isolation. While the loop runs, every candidate before the
\* current one has its outcome, whatever that outcome was; the report holds
\* exactly one outcome entry for every candidate, so no failure of a candidate
\* keeps a later candidate from being processed.
C1_FailureIsolation ==
    \A r \in Runs :
        /\ (kind[r] = "process" /\ pc[r] = "loop") =>
              /\ idx[r] \in 1..Len(stale_leads[r])
              /\ Len(results[r]) = idx[r] - 1
        /\ Reported(r) =>
              /\ Len(ret[r].results) = Len(stale_leads[r])
              /\ \A k \in 1..Len(stale_leads[r]) :
                    Cardinality({j \in 1..Len(ret[r].results) :
                        ret[r].results[j].lead_id = stale_leads[r][k]["id"]}) = 1

\* a report over two candidates whose first outcome is a failure and whose
\* second candidate was processed all the same
C1_Witness ==
    \E r \in Runs :
        /\ Reported(r)
        /\ Len(stale_leads[r]) >= 2
        /\ ret[r].results[1].status = "insufficient_data"
        /\ ret[r].results[2].lead_id = stale_leads[r][2]["id"]

\* C2: the outcome kind of each candidate: insufficient_data if its full name or
\* email is missing; with both, success when generation and write-back succeed
\* and update_failed when generation succeeds and the write-back fails.
C2_OutcomeKinds ==
    \A r \in Runs :
        Reported(r) =>
            \A k \in 1..Len(stale_leads[r]) :
                LET lead == stale_leads[r][k]
                    kindOf == ret[r].results[k].status
                    ans == env[r][k]
                IN  /\ ~HasContact(lead) => kindOf = "insufficient_data"
                    /\ (HasContact(lead) /\ ans.api = "text" /\ ans.wb = "ok")
                          => kindOf = "success"
                    /\ (HasContact(lead) /\ ans.api = "text" /\ ans.wb = "failed")
                          => kindOf = "update_failed"

\* C3: the report of a run over a non-empty candidate list: the results are the
\* candidates' in the candidates' order, total_leads is the number of candidates
\* and successful the number of results with status success.
C3_ReportShape ==
    \A r \in Runs :
        Reported(r) =>
            /\ [k \in 1..Len(ret[r].results) |-> ret[r].results[k].lead_id]
                  = [k \in 1..Len(stale_leads[r]) |-> stale_leads[r][k]["id"]]
            /\ ret[r].total_leads = Len(stale_leads[r])
            /\ ret[r].successful
                  = Cardinality({k \in 1..Len(ret[r].results) :
                                    ret[r].results[k].status = "success"})

\* a report over the two records of a two-page store, in the store's order
C3_Witness ==
    \E r \in Runs :
        /\ Reported(r)
        /\ fetch_failed[r] = "no"
        /\ ret[r].total_leads = 2
        /\ ret[r].results[1].lead_id = 1
        /\ ret[r].results[2].lead_id = 2

\* C4: idempotence. A second run right after a first one finds no candidate. It
\* is stated for first runs all of whose candidates hold a name and an email and
\* are answered with a text and an accepted write-back, and for list requests
\* that succeed: the runs in which the first run is to write every candidate back.
C4_SecondRunNoCandidates ==
    ( /\ ProcessDone(1)
      /\ kind[2] = "process" /\ pc[2] \in {"loop", "done"}
      /\ fetch_failed[1] = "no" /\ fetch_failed[2] = "no"
      /\ \A k \in 1..Len(stale_leads[1]) :
            /\ HasContact(stale_leads[1][k])
            /\ env[1][k].api = "text" /\ env[1][k].wb = "ok" )
    => stale_leads[2] = <<>>

\* C5: a failed list request makes the run return success = false with no
\* results, and nothing else does.
C5_FetchFailureAborts ==
    \A r \in Runs :
        ProcessDone(r) =>
            /\ fetch_failed[r] # "no" =>
                  (ret[r].success = FALSE /\ ret[r].results = <<>>)
            /\ ret[r].success = FALSE => fetch_failed[r] # "no"


(* ------------------------------------------------------------------ *)
(* Claims about classification (specification SpecClassify)           *)
(* ------------------------------------------------------------------ *)
\* fetch_stale_leads has returned the classification of every record of the store
FetchedOk(r) == kind[r] = "stale_leads" /\ pc[r] = "done" /\ fetch_failed[r] = "no"

\* the lead of record i is in the list invocation r got
Included(r, i) == \E k \in 1..Len(stale_leads[r]) : stale_leads[r][k]["id"] = i

GeneratedOf(i) == Get(store[i], "Generated Text Message", "")

LastContactedOf(i) == Get(store[i], "Last Contacted", <<>>)

\* C6: idempotence guard. A record with a non-empty generated message is in no
\* list fetch_stale_leads returns, whatever its Last Contacted value and the
\* reference date; every returned candidate has an empty generated message.
C6_GeneratedExcluded ==
    \A r \in Runs :
        pc[r] = "done" =>
            /\ \A i \in DOMAIN store : GeneratedOf(i) # "" => ~Included(r, i)
            /\ \A k \in 1..Len(stale_leads[r]) :
                  stale_leads[r][k]["generated_email_message"] = ""

\* a record with a generated message and a date long past (25/12/2023), or one
\* that does not parse, was classified and left out
C6_Witness ==
    \E r \in Runs, i \in DOMAIN store :
        /\ FetchedOk(r)
        /\ GeneratedOf(i) # ""
        /\ LastContactedOf(i) \in {LC_Dmy2512, LC_NotADate}
        /\ ~Included(r, i)

\* C7: a record without generated message whose Last Contacted parses is
\* included iff the reference date is more than 7 whole days after it: 7 days
\* exactly and dates in the future are excluded, 8 days are included.
C7_StrictlyMoreThanSeven ==
    \A r \in Runs :
        FetchedOk(r) =>
            \A i \in DOMAIN store :
                (/\ GeneratedOf(i) = ""
                 /\ LastContactedOf(i) # <<>>
                 /\ ParseLastContacted(LastContactedOf(i)).ok)
                => LET days == ToOrdinal(today)
                                  - ToOrdinal(ParseLastContacted(LastContactedOf(i)))
                   IN  /\ days >= 8 => Included(r, i)
                       /\ days <= 7 => ~Included(r, i)

\* a record last contacted exactly 7 days before the reference date was
\* classified and left out
C7_Witness ==
    \E r \in Runs, i \in DOMAIN store :
        /\ FetchedOk(r)
        /\ GeneratedOf(i) = ""
        /\ LastContactedOf(i) = LC_Iso0104
        /\ today.d = 11
        /\ ~Included(r, i)

\* C8: date-format policy. A non-empty Last Contacted holding "/" is read as
\* day/month/year and any other as year-month-day, never as the other format;
\* when that reading fails a lead without generated message is included and a
\* warning is logged.
C8_FormatPolicy ==
    \A r \in Runs :
        FetchedOk(r) =>
            \A i \in DOMAIN store :
                (GeneratedOf(i) = "" /\ LastContactedOf(i) # <<>>)
                => LET cs == LastContactedOf(i)
                       read == IF \E k \in 1..Len(cs) : cs[k] = "/"
                               THEN ParseDMY(cs) ELSE ParseISO(cs)
                   IN  IF read.ok
                       THEN /\ Included(r, i) <=> ToOrdinal(today) - ToOrdinal(read) > 7
                            /\ i \notin warned[r]
                       ELSE Included(r, i) /\ i \in warned[r]

\* 04-01-2024 holds no "/", fails as year-month-day and is included with a
\* warning (read as day/month/year it would be too recent)
C8_Witness ==
    \E r \in Runs, i \in DOMAIN store :
        /\ FetchedOk(r)
        /\ GeneratedOf(i) = ""
        /\ LastContactedOf(i) = LC_DashDmy
        /\ Included(r, i)
        /\ i \in warned[r]

\* C9 as stated: every record whose Last Contacted is empty or absent is
\* included.
C9_EmptyAlwaysIncluded ==
    \A r \in Runs :
        FetchedOk(r) =>
            \A i \in DOMAIN store : LastContactedOf(i) = <<>> => Included(r, i)

\* C9 as amended: every fetched record whose Last Contacted is empty or absent
\* and whose generated message is empty is included, whatever the reference date.
C9_EmptyIncludedUnlessGenerated ==
    \A r \in Runs :
        FetchedOk(r) =>
            \A i \in DOMAIN store :
                (LastContactedOf(i) = <<>> /\ GeneratedOf(i) = "") => Included(r, i)

\* a record holding no Last Contacted cell and no generated message is included
C9_Witness ==
    \E r \in Runs, i \in DOMAIN store :
        /\ FetchedOk(r)
        /\ "Last Contacted" \notin DOMAIN store[i]
        /\ GeneratedOf(i) = ""
        /\ Included(r, i)

(* ------------------------------------------------------------------ *)
(* Claims about _make_api_call (specification FairSpecRetry)          *)
(* ------------------------------------------------------------------ *)
AllRateLimited == \A k \in 1..Len(api_log) : api_log[k].status = 429

C10_Bounded ==
    /\ Len(api_log) <= 5
    /\ api_pc # "returned_none"
    /\ AllRateLimited =>
          /\ api_pc # "returned"
          /\ api_pc = "raised" <=> Len(api_log) = 5

\* C10: _make_api_call makes at most 5 attempts and ends, returning a response
\* or raising; when every attempt answers 429 it raises after the 5th attempt,
\* neither returning nor attempting again.
C10_AtMostFiveAttempts ==
    [](C10_Bounded) /\ <>(api_pc \in {"returned", "raised"})

\* five attempts were made, each answered 429, and the call raised
C10_Witness ==
    /\ Len(api_log) = 5
    /\ AllRateLimited
    /\ api_pc = "raised"

RECURSIVE SumSeq(_)
SumSeq(q) == IF q = <<>> THEN 0 ELSE Head(q) + SumSeq(Tail(q))

\* attempt k of the call failed in a way the loop retries
Retryable(k) ==
    \/ api_log[k].outcome = "transport_error"
    \/ api_log[k].outcome = "status_error" /\ api_log[k].status = 429

\* C11: the sleep before the k-th retry lasts 2^(k-1) units (1, 2, 4, 8), after
\* a 429 and after a transport failure alike; a sleep follows only a retryable
\* failure of an attempt that is not the last, so none follows a response or the
\* final attempt; two rate-limited attempts and a response on the third return
\* that response after 1 + 2 = 3 units slept.
C11_BackoffSchedule ==
    /\ \A k \in 1..Len(slept) :
          /\ slept[k] = 2^(k - 1)
          /\ k < Retries
          /\ k <= Len(api_log) /\ Retryable(k)
    /\ api_pc \in {"returned", "raised"} => Len(slept) = Len(api_log) - 1
    /\ ( /\ Len(api_log) = 3
         /\ api_log[1].status = 429
         /\ api_log[2].status = 429
         /\ api_log[3].outcome = "response" )
       => /\ api_pc = "returned"
          /\ api_out = api_log[3]
          /\ SumSeq(slept) = 3

\* two attempts answered 429, the third returned a response: 1 and 2 were slept
C11_Witness ==
    /\ Len(api_log) = 3
    /\ api_log[1].status = 429
    /\ api_log[2].status = 429
    /\ api_log[3].outcome = "response"
    /\ api_pc = "returned"
    /\ slept = <<1, 2>>

\* C12: an attempt answered with an error status other than 429 is the last
\* attempt of the call: the call raises that error at once, with no sleep after
\* it and no further attempt, however many attempts remain.
C12_OtherStatusRaisesAtOnce ==
    \A k \in 1..Len(api_log) :
        (api_log[k].outcome = "status_error" /\ api_log[k].status # 429)
        => /\ k = Len(api_log)
           /\ api_pc = "raised"
           /\ api_out = api_log[k]
           /\ Len(slept) = k - 1

\* the second of five attempts answered 500: the call raised it, one sleep made
C12_Witness ==
    /\ Len(api_log) = 2
    /\ api_log[1].status = 429
    /\ api_log[2].status = 500
    /\ api_pc = "raised"
    /\ slept = <<1>>

\* C13: a transport failure of an attempt other than the last is followed by a
\* sleep and then by another attempt, as a 429 is; when all 5 attempts fail with
\* retryable errors the call raises the error of the last attempt.
C13_TransportRetried ==
    /\ \A k \in 1..Len(api_log) :
          (Retryable(k) /\ k < Retries /\ k = Len(api_log))
          => /\ api_pc \in {"sleep", "call"}
             /\ api_pc = "sleep" => Len(slept) = k - 1
             /\ api_pc = "call" => (Len(slept) = k /\ attempt = k)
    /\ (Len(api_log) = Retries /\ \A k \in 1..Retries : Retryable(k))
       => /\ api_pc = "raised"
          /\ api_out = api_log[Retries]

\* transport failures and a 429 mixed over five attempts: the fifth attempt's
\* transport error was raised
C13_Witness ==
    /\ Len(api_log) = Retries
    /\ api_log[1].outcome = "transport_error"
    /\ api_log[2].status = 429
    /\ api_log[Retries].outcome = "transport_error"
    /\ api_pc = "raised"
    /\ api_out = api_log[Retries]
    /\ Len(slept) = Retries - 1

(* ------------------------------------------------------------------ *)
(* Claims about a candidate's requests and the single-lead operations *)
(* ------------------------------------------------------------------ *)
\* the requests of invocation r for lead id in a request history
RequestsFor(log, r, id) == {k \in 1..Len(log) : log[k].run = r /\ log[k].id = id}

\* the number of outcomes of a report with status success
Successes(res) == Cardinality({k \in 1..Len(res) : res[k].status = "success"})

\* C14: in a batch run, a candidate holding a name and an email whose generation
\* fails (the call raises, or answers without a text) has the outcome error; it
\* is not counted in successful and every candidate still has its outcome.
C14_GenerationFailureIsError ==
    \A r \in Runs :
        Reported(r) =>
            /\ Len(ret[r].results) = Len(stale_leads[r])
            /\ ret[r].successful = Successes(ret[r].results)
            /\ \A k \in 1..Len(stale_leads[r]) :
                  (HasContact(stale_leads[r][k]) /\ env[r][k].api \in {"raise", "malformed"})
                  => ret[r].results[k].status = "error"

\* C15: a candidate whose name or email is missing has the outcome
\* insufficient_data, no generation request and no PATCH is made for it, and
\* the loop goes on: the run ends only with an outcome for every candidate.
C15_InsufficientDataNoCall ==
    \A r \in Runs :
        kind[r] = "process" =>
            /\ \A k \in 1..Len(results[r]) :
                  ~HasContact(stale_leads[r][k]) =>
                      /\ results[r][k].status = "insufficient_data"
                      /\ results[r][k].lead_id = stale_leads[r][k]["id"]
                      /\ RequestsFor(gens, r, stale_leads[r][k]["id"]) = {}
                      /\ RequestsFor(writes, r, stale_leads[r][k]["id"]) = {}
            /\ pc[r] = "done" => Len(results[r]) = Len(stale_leads[r])
            /\ pc[r] = "loop" => Len(results[r]) < Len(stale_leads[r])

\* a report over two candidates, the first without an email: it was recorded as
\* insufficient_data, the second candidate has its outcome, no request was made
C15_Witness ==
    \E r \in Runs :
        /\ Reported(r)
        /\ Len(stale_leads[r]) = 2
        /\ stale_leads[r][1]["full_name"] = "Ann"
        /\ stale_leads[r][1]["email"] = ""
        /\ results[r][1].status = "insufficient_data"
        /\ Len(results[r]) = 2
        /\ RequestsFor(gens, r, stale_leads[r][1]["id"]) = {}
        /\ RequestsFor(writes, r, stale_leads[r][1]["id"]) = {}

\* C16: a candidate holding a name and an email whose generation returns a text
\* and whose write-back fails has the outcome update_failed and is not counted
\* in successful; the run made exactly one generation request and exactly one
\* PATCH for it.
C16_UpdateFailedNotRetried ==
    \A r \in Runs :
        Reported(r) =>
            /\ ret[r].successful = Successes(ret[r].results)
            /\ \A k \in 1..Len(stale_leads[r]) :
                  ( /\ HasContact(stale_leads[r][k])
                    /\ env[r][k].api = "text"
                    /\ env[r][k].wb = "failed" )
                  => /\ ret[r].results[k].status = "update_failed"
                     /\ Cardinality(RequestsFor(gens, r, stale_leads[r][k]["id"])) = 1
                     /\ Cardinality(RequestsFor(writes, r, stale_leads[r][k]["id"])) = 1

\* C17: a run of process_all_stale_leads whose candidate list is empty returns
\* a report with success true, a count of 0 and no results, and has made no
\* generation request and no PATCH.
C17_NoCandidatesReport ==
    \A r \in Runs :
        (ProcessDone(r) /\ stale_leads[r] = <<>>) =>
            /\ ret[r].success = TRUE
            /\ ret[r].processed = 0
            /\ ret[r].results = <<>>
            /\ Successes(ret[r].results) = 0
            /\ \A k \in 1..Len(gens) : gens[k].run # r
            /\ \A k \in 1..Len(writes) : writes[k].run # r

\* the list requests succeeded over a store whose records all hold a generated
\* message or a recent contact: the run reported no candidates
C17_Witness ==
    \E r \in Runs :
        /\ ProcessDone(r)
        /\ fetch_failed[r] = "no"
        /\ Len(store) = NumRecords
        /\ stale_leads[r] = <<>>
        /\ ret[r] = NoLeadsReport
        /\ writes = <<>>

\* a single-lead operation has answered
SingleDone(r) == kind[r] \in SingleKinds /\ pc[r] = "done"

\* C18: a single-lead operation for a lead that exists with a non-empty Full
\* Name and Email Address makes one generation request and then one PATCH, and
\* answers success (200) iff the PATCH succeeded, an error otherwise.
C18_SingleLeadContract ==
    \A r \in Runs :
        ( /\ SingleDone(r)
          /\ fetch_failed[r] = "no"
          /\ target[r] \in DOMAIN store
          /\ Get(store[target[r]], "Full Name", "") # ""
          /\ Get(store[target[r]], "Email Address", "") # "" )
        => /\ Cardinality(RequestsFor(gens, r, target[r])) = 1
           /\ Cardinality(RequestsFor(writes, r, target[r])) = 1
           /\ \A k \in RequestsFor(writes, r, target[r]) :
                  ret[r].status = 200 <=> writes[k].wb = "ok"
           /\ ret[r].status \in {200, 500}

\* C19: a single-lead operation for an id the store does not hold answers 404
\* (not found), and no generation request and no PATCH is made for that id.
C19_LookupMissNotFound ==
    \A r \in Runs :
        (SingleDone(r) /\ target[r] \notin DOMAIN store) =>
            /\ ret[r].status = 404
            /\ RequestsFor(gens, r, target[r]) = {}
            /\ RequestsFor(writes, r, target[r]) = {}

\* the operation was asked for the id after the last record of a non-empty
\* store, the GET was answered, and the caller got 404
C19_Witness ==
    \E r \in Runs :
        /\ SingleDone(r)
        /\ store # <<>>
        /\ target[r] = Len(store) + 1
        /\ fetch_failed[r] = "http_status"
        /\ ret[r].status = 404
        /\ gens = <<>> /\ writes = <<>>

PlaceholderKeys ==
    {"fullName", "potentialInterest", "crmServicesNeeded", "leadSource", "lastContacted"}

\* the strings generate_re_engagement_email returns in place of a generated text
ErrorStrings ==
    {"Error: Missing required lead data (fullName or emailAddress).",
     "Error: Gemini API returned an empty or invalid response.",
     "Error generating email: exception"}

\* C22: the prompt built holds no empty interpolation: the name and each
\* optional field that is absent or the empty string in the lead appears as its
\* placeholder.
C22_NoEmptyInterpolation ==
    (g_pc = "returned" /\ g_prompt # NoPrompt) =>
        \A k \in PlaceholderKeys :
            /\ g_prompt[k] # ""
            /\ Get(g_lead, k, "") = "" => g_prompt[k] = PromptDefaults[k]

ProcessableAt(r, k, i) ==
    /\ k \in 1..Len(stale_leads[r])
    /\ stale_leads[r][k]["id"] = i
    /\ HasContact(stale_leads[r][k])
    /\ env[r][k].api = "text"
    /\ env[r][k].wb = "ok"

\* C21: runs are not deduplicated. Two runs that both selected the same lead
\* as a candidate, with both collaborators available, each made its own
\* generation request and its own write-back for it.
C21_BothRunsProcess ==
    \A r1 \in Runs, r2 \in Runs, i \in 1..Len(store) :
        ( /\ r1 # r2
          /\ Reported(r1) /\ Reported(r2)
          /\ \E k \in 1..Len(stale_leads[r1]) : ProcessableAt(r1, k, i)
          /\ \E k \in 1..Len(stale_leads[r2]) : ProcessableAt(r2, k, i) )
        => \A r \in {r1, r2} :
              /\ Cardinality(RequestsFor(gens, r, i)) = 1
              /\ Cardinality(RequestsFor(writes, r, i)) = 1

\* C26: no outcome of a batch run is already_processed, in its results or in
\* its report, whatever the store holds for the candidate's record when its
\* iteration runs.
C26_NeverAlreadyProcessed ==
    \A r \in Runs :
        /\ \A k \in 1..Len(results[r]) : results[r][k].status # "already_processed"
        /\ Reported(r) =>
              \A k \in 1..Len(ret[r].results) :
                  ret[r].results[k].status # "already_processed"

\* a run reported on a candidate whose record had received a message from
\* /update-email between the run's fetch and the candidate's iteration
C26_Witness ==
    \E r \in Runs :
        /\ Reported(r)
        /\ \E k \in 1..Len(stale_leads[r]) :
              /\ stale_leads[r][k]["generated_email_message"] = ""
              /\ env[r][k].stored
              /\ ret[r].results[k].lead_id = stale_leads[r][k]["id"]
              /\ ret[r].results[k].status = "insufficient_data"

(* ------------------------------------------------------------------ *)
(* Claims about the write-back (specification SpecUpdate)             *)
(* ------------------------------------------------------------------ *)
\* the fields update_lead_with_generated_email sends
WrittenFields == {"Generated Text Message", "Timestamp", "Status"}

\* record i would be a candidate by its Last Contacted alone
DateStale(i, fields) ==
    Classify(<<[id |-> i, fields |-> Without(fields, {"Generated Text Message"})]>>,
             today) # <<>>

\* a step changes the store by one successful PATCH at most, in the three
\* written fields of the addressed record only; a failed PATCH changes nothing
C27_FrameStep ==
    /\ Len(store') = Len(store)
    /\ \A i \in 1..Len(store) :
          /\ DateStale(i, store'[i]) <=> DateStale(i, store[i])
          /\ store'[i] # store[i] =>
                /\ Len(writes') = Len(writes) + 1
                /\ writes'[Len(writes')].id = i
                /\ writes'[Len(writes')].wb = "ok"
                /\ store'[i]["Generated Text Message"] = writes'[Len(writes')].text
                /\ \A j \in 1..Len(store) : j # i => store'[j] = store[j]
                /\ \A k \in (DOMAIN store[i] \cup DOMAIN store'[i]) \ WrittenFields :
                      /\ k \in DOMAIN store[i]
                      /\ k \in DOMAIN store'[i]
                      /\ store'[i][k] = store[i][k]
    /\ (Len(writes') = Len(writes) + 1 /\ writes'[Len(writes')].wb = "failed")
          => store' = store

\* a record that holds a message is no candidate, whatever its Last Contacted
C27_KeptOutByMessage ==
    \A i \in 1..Len(store) :
        Get(store[i], "Generated Text Message", "") # ""
        => Classify(<<[id |-> i, fields |-> store[i]]>>, today) = <<>>

\* C27: update_lead_with_generated_email changes only Generated Text Message,
\* Timestamp and Status of the addressed record: every other field and every
\* other record stay as they were, and a failed write-back changes nothing. A
\* written record therefore stays stale by its date and is kept out of a later
\* candidate list by its message alone.
C27_WriteBackFrame ==
    [][C27_FrameStep]_vars /\ [](C27_KeptOutByMessage)

\* one of two records was last contacted ten days ago and received a message:
\* its Last Contacted is as before, the other record holds no message, and a
\* fetch that succeeded left the written record out
C27_Witness ==
    /\ Len(store) = 2
    /\ Len(writes) = 1
    /\ writes[1].wb = "ok"
    /\ LastContactedOf(writes[1].id) = LC_Iso1231
    /\ GeneratedOf(writes[1].id) = writes[1].text
    /\ DateStale(writes[1].id, store[writes[1].id])
    /\ \E j \in 1..2 : j # writes[1].id /\ GeneratedOf(j) = ""
    /\ FetchedOk(1)
    /\ ~Included(1, writes[1].id)

(* ------------------------------------------------------------------ *)
(* Claims about the reference date (specification SpecClock)          *)
(* ------------------------------------------------------------------ *)
\* C23: determinism of classification. The caller of fetch_stale_leads supplies
\* no date, and the store is the same throughout: two fetches that succeeded
\* classified the same records and return the same candidate list.
C23_Deterministic ==
    \A r1, r2 \in Runs :
        (FetchedOk(r1) /\ FetchedOk(r2)) => stale_leads[r1] = stale_leads[r2]

(* ------------------------------------------------------------------ *)
(* Claims about pagination (specification FairSpecPaging)             *)
(* ------------------------------------------------------------------ *)
\* the first n records of the store, as the list requests return them
FirstRecords(n) == [i \in 1..n |-> [id |-> i, fields |-> store[i]]]

\* between two list requests: the pages so far are collected once each, in page
\* order, and the cursor of the last page is the one supplied next
C25_CollectedSoFar ==
    \A r \in Runs :
        pc[r] = "fetch" =>
            /\ offset[r] <= Len(store)
            /\ all_records[r] = FirstRecords(offset[r])
            /\ offset[r] # 0 => offset[r] < Len(store)

\* one list request: a page with a cursor moves the cursor on to the one the page
\* returned; a page without one ends the loop with every record of the store
\* classified; a failed request ends it with nothing, the earlier pages dropped
C25_PageStep ==
    \A r \in Runs :
        pc[r] = "fetch" =>
            /\ (pc'[r] = "fetch" /\ offset'[r] # offset[r]) =>
                  /\ offset'[r] = ListPage(offset[r]).offset
                  /\ offset'[r] > offset[r]
                  /\ all_records'[r] = all_records[r] \o ListPage(offset[r]).records
            /\ (pc'[r] # "fetch" /\ fetch_failed'[r] = "no") =>
                  /\ ListPage(offset[r]).offset = 0
                  /\ stale_leads'[r] = Classify(FirstRecords(Len(store)), today)
            /\ (pc'[r] # "fetch" /\ fetch_failed'[r] # "no") =>
                  /\ stale_leads'[r] = <<>>
                  /\ all_records'[r] = <<>>

\* C25: pagination. fetch_stale_leads requests page after page, supplying the
\* cursor the previous page returned, until a page holds no cursor; then every
\* record of every page has been collected exactly once, in page order, and all
\* of them are classified. A failure on any page discards the records of the
\* earlier pages, and the loop ends once every request is answered.
C25_Pagination ==
    /\ [](C25_CollectedSoFar)
    /\ [][C25_PageStep]_vars
    /\ \A r \in Runs : (pc[r] = "fetch") ~> (pc[r] # "fetch")

\* a store of two records, one per page, both stale: the fetch took two
\* requests and returned the lead of the first page before that of the second
C25_Witness ==
    \E r \in Runs :
        /\ pc[r] = "done"
        /\ fetch_failed[r] = "no"
        /\ Len(store) = 2
        /\ ListPage(0).offset = 1
        /\ ListPage(1).offset = 0
        /\ Len(stale_leads[r]) = 2
        /\ stale_leads[r][1]["id"] = 1
        /\ stale_leads[r][2]["id"] = 2

====
